---- MODULE Spec2Model ----
(***************************************************************************)
(* Model of homeassistant/components/lyric/__init__.py: the Honeywell      *)
(* Lyric integration of Home Assistant.                                    *)
(*                                                                         *)
(*   Spec         the life cycle: async_setup, async_setup_entry, the      *)
(*                forwarded sub-platform setup tasks, async_unload_entry   *)
(*   SpecDevices  LyricClient and its devices() generator                  *)
(*   SpecEntity   LyricEntity.async_update and the availability flag       *)
(***************************************************************************)
EXTENDS Naturals, Sequences, FiniteSets, TLC

VARIABLES
    \* ---- life cycle (Spec) ----
    config,          \* the global configuration handed to async_setup
    hass_data,       \* hass.data, restricted to the integration's key
    oauth_impls,     \* OAuth2 implementations registered with the flow handler
    component_pc,    \* "init" before async_setup ran, "done" after it returned
    setup_return,    \* what async_setup returned ("none" before it ran)
    entry_data,      \* entry.data of the config entry
    entry_updated,   \* async_update_entry was called by the last async_setup_entry
    entry_state,     \* the host's state of the config entry
    setup_pc,        \* position of async_setup_entry: "idle" | "resolving"
    setup_result,    \* outcome of the last async_setup_entry
    setups,          \* number of async_setup_entry calls so far
    pending,         \* scheduled, not yet run, forwarded setup tasks per platform
    platform_loaded, \* the sub-platform has set up its entities
    platform_seen,   \* what the last forwarded setup found in hass.data
    hold_service,    \* the hold-time service is registered
    unload_pc,       \* position of async_unload_entry: "idle" | "gathering"
    unload_task,     \* state of each forwarded unload of the running gather
    unload_result,   \* outcome of the last async_unload_entry
    \* ---- LyricClient (SpecDevices) ----
    lyric_locations, \* lyric.locations: the vendor client's current collection
    client,          \* the LyricClient wrapper
    calls,           \* devices() calls since the collection last changed (0..2)
    yielded,         \* the pairs the last devices() call produced
    prev_yielded,    \* the pairs the call before it produced
    \* ---- LyricEntity (SpecEntity) ----
    entity_kind,     \* per entity: "absent" | "LyricEntity" | "Concrete"
    _available,      \* per entity: self._available
    update_pc,       \* per entity: position of async_update
    update_result    \* per entity: how the last async_update ended

lifecycle_vars ==
    << config, hass_data, oauth_impls, component_pc, setup_return, entry_data,
       entry_updated, entry_state, setup_pc, setup_result, setups, pending,
       platform_loaded, platform_seen, hold_service, unload_pc, unload_task,
       unload_result >>

device_vars == << lyric_locations, client, calls, yielded, prev_yielded >>

entity_vars == << entity_kind, _available, update_pc, update_result >>

vars == << lifecycle_vars, device_vars, entity_vars >>

\* ---------------------------------------------------------------- bounds

\* async_setup_entry is called at most this many times in a run
MaxSetups == 2

\* the vendor client knows at most this many locations
MaxLocations == 2

\* a location has at most this many thermostats
MaxThermostats == 3

\* at most this many entities are constructed
MaxEntities == 2

\* ------------------------------------------------------------- constants

LyricDomain == "lyric"
DATA_LYRIC_CLIENT == "lyric_client"
CONF_TOKEN == "token"
CONF_CLIENT_ID == "client_id"
CONF_CLIENT_SECRET == "client_secret"
AUTH_IMPLEMENTATION == "auth_implementation"
LYRIC_COMPONENTS == << "climate", "sensor" >>

Components == { LYRIC_COMPONENTS[i] : i \in DOMAIN LYRIC_COMPONENTS }

EmptyMap == [k \in {} |-> k]

\* d without key k (del d[k] / a dict without k)
Without(d, k) == [x \in (DOMAIN d) \ {k} |-> d[x]]

\* d with d[k] = v
With(d, k, v) == [x \in (DOMAIN d) \cup {k} |-> IF x = k THEN v ELSE d[x]]

\* ----------------------------------------------------------- async_setup

\* The descriptor built at lines 54-61.
LocalOAuth2Implementation(cfg) ==
    [ domain        |-> LyricDomain,
      client_id     |-> cfg[LyricDomain][CONF_CLIENT_ID],
      client_secret |-> cfg[LyricDomain][CONF_CLIENT_SECRET],
      authorize_url |-> "https://api.honeywell.com/oauth2/authorize",
      token_url     |-> "https://api.honeywell.com/oauth2/token" ]

\* A mutant of RegisterImplementation: the registration does not wait for the
\* check of the domain key (config.get(DOMAIN, {}) in place of config[DOMAIN]).
RegisterImplementationAlways(cfg, impls) ==
    With(impls, LyricDomain,
         IF LyricDomain \in DOMAIN cfg
         THEN LocalOAuth2Implementation(cfg)
         ELSE [domain |-> LyricDomain])

\* Lines 49-62: nothing is registered unless the domain key is configured.
RegisterImplementation(cfg, impls) ==
    IF LyricDomain \notin DOMAIN cfg
    THEN impls
    ELSE With(impls, LyricDomain, LocalOAuth2Implementation(cfg))

\* Line 47: hass.data[DOMAIN] = {}
InitDomainData(data) == With(data, LyricDomain, EmptyMap)

async_setup ==
    /\ component_pc = "init"
    /\ hass_data' = InitDomainData(hass_data)
    /\ oauth_impls' = RegisterImplementation(config, oauth_impls)
    /\ setup_return' = "True"
    /\ component_pc' = "done"
    /\ UNCHANGED << config, entry_data, entry_updated, entry_state, setup_pc,
                    setup_result, setups, pending, platform_loaded,
                    platform_seen, hold_service, unload_pc, unload_task,
                    unload_result >>
    /\ UNCHANGED << device_vars, entity_vars >>

\* ----------------------------------------------------- async_setup_entry

\* A mutant of BackfillMarker: the marker is written whether present or not.
BackfillMarkerAlways(data) == With(data, AUTH_IMPLEMENTATION, LyricDomain)

\* Lines 69-72: the implementation marker is backfilled when absent.
BackfillMarker(data) ==
    IF AUTH_IMPLEMENTATION \notin DOMAIN data
    THEN With(data, AUTH_IMPLEMENTATION, LyricDomain)
    ELSE data

\* Lines 69-74: up to the await of the OAuth2 implementation.
async_setup_entry_begin ==
    /\ component_pc = "done"
    /\ entry_state \in {"not_loaded", "setup_error"}
    /\ setup_pc = "idle"
    /\ unload_pc = "idle"
    /\ setups < MaxSetups
    /\ entry_data' = BackfillMarker(entry_data)
    /\ entry_updated' = (AUTH_IMPLEMENTATION \notin DOMAIN entry_data)
    /\ setup_pc' = "resolving"
    /\ setup_result' = "pending"
    /\ setups' = setups + 1
    /\ entry_state' = "setup_in_progress"
    /\ UNCHANGED << config, hass_data, oauth_impls, component_pc, setup_return,
                    pending, platform_loaded, platform_seen, hold_service,
                    unload_pc, unload_task, unload_result >>
    /\ UNCHANGED << device_vars, entity_vars >>

\* How the rest of async_setup_entry (lines 74-96) can end.
SetupOutcomes ==
    { "ok", "raised_oauth", "raised_token", "raised_lyric", "raised_client" }

\* Which endings the state allows: resolution fails for a marker without a
\* registered implementation, entry.data[CONF_TOKEN] fails without a token,
\* and the network calls of the resolution and of the SDK may always fail.
SetupOutcomePossible(o) ==
    LET registered == entry_data[AUTH_IMPLEMENTATION] \in DOMAIN oauth_impls
        has_token  == CONF_TOKEN \in DOMAIN entry_data
    IN  CASE o = "raised_oauth"  -> TRUE
          [] o = "raised_token"  -> registered /\ ~has_token
          [] o = "raised_lyric"  -> registered /\ has_token
          [] o = "raised_client" -> registered /\ has_token
          [] o = "ok"            -> registered /\ has_token

\* Lines 78-87: the vendor client built from the implementation and the token.
Lyric(implementation, token, n) ==
    [ instance      |-> n,
      app_name      |-> "Home Assistant",
      client_id     |-> implementation.client_id,
      client_secret |-> implementation.client_secret,
      token         |-> token ]

\* Lines 119-122: LyricClient.__init__; locations is lyric.locations as read
\* by the constructor.
LyricClient(lyric, locations) ==
    [ lyric     |-> lyric,
      _location |-> [i \in DOMAIN locations |-> locations[i].name] ]

\* Line 89: hass.data.setdefault(DOMAIN, {})[DATA_LYRIC_CLIENT] = LyricClient(lyric)
StoreClient(data, wrapper) ==
    LET inner == IF LyricDomain \in DOMAIN data THEN data[LyricDomain] ELSE EmptyMap
    IN  With(data, LyricDomain, With(inner, DATA_LYRIC_CLIENT, wrapper))

\* Lines 91-94: one task per declared platform.
ScheduleForwards(p) == [c \in Components |-> p[c] + 1]

\* A mutant of DataAfterSetup: the wrapper slot is written before the vendor
\* client is known to be constructible.
DataAfterSetupStoreFirst(data, o) ==
    IF o \in {"ok", "raised_lyric", "raised_client"}
    THEN StoreClient(data, LyricClient([instance |-> setups], << >>))
    ELSE data

\* Lines 74-89: hass.data after the call; the right-hand side of line 89 is
\* evaluated before its target, so a raise leaves hass.data alone.
DataAfterSetup(data, o) ==
    IF o = "ok"
    THEN StoreClient(data,
            LyricClient(Lyric(oauth_impls[entry_data[AUTH_IMPLEMENTATION]],
                              entry_data[CONF_TOKEN], setups),
                        << >>))
    ELSE data

\* A mutant of TasksAfterSetup: only the first platform is forwarded.
TasksAfterSetupFirstOnly(p, o) ==
    IF o = "ok"
    THEN [p EXCEPT ![LYRIC_COMPONENTS[1]] = p[LYRIC_COMPONENTS[1]] + 1]
    ELSE p

\* Lines 91-94: the tasks scheduled by the call.
TasksAfterSetup(p, o) == IF o = "ok" THEN ScheduleForwards(p) ELSE p

\* Lines 74-96: from the resumption after the await to the return or raise.
async_setup_entry_finish ==
    /\ setup_pc = "resolving"
    /\ \E o \in SetupOutcomes :
        /\ SetupOutcomePossible(o)
        /\ hass_data' = DataAfterSetup(hass_data, o)
        /\ pending' = TasksAfterSetup(pending, o)
        /\ setup_result' = IF o = "ok" THEN "True" ELSE o
        /\ entry_state' = IF o = "ok" THEN "loaded" ELSE "setup_error"
    /\ setup_pc' = "idle"
    /\ UNCHANGED << config, oauth_impls, component_pc, setup_return, entry_data,
                    entry_updated, setups, platform_loaded, platform_seen,
                    hold_service, unload_pc, unload_task, unload_result >>
    /\ UNCHANGED << device_vars, entity_vars >>

\* A forwarded setup task runs: the sub-platform pulls the wrapper from
\* hass.data[DOMAIN][DATA_LYRIC_CLIENT]; the climate platform registers the
\* hold-time service.
ClientPresent(data) ==
    /\ LyricDomain \in DOMAIN data
    /\ DATA_LYRIC_CLIENT \in DOMAIN data[LyricDomain]

async_forward_entry_setup(c) ==
    /\ pending[c] > 0
    /\ pending' = [pending EXCEPT ![c] = pending[c] - 1]
    /\ IF ClientPresent(hass_data)
       THEN /\ platform_loaded' = [platform_loaded EXCEPT ![c] = TRUE]
            /\ platform_seen' = [platform_seen EXCEPT ![c] = "client"]
            /\ hold_service' = (hold_service \/ c = "climate")
       ELSE /\ platform_seen' = [platform_seen EXCEPT ![c] = "KeyError"]
            /\ UNCHANGED << platform_loaded, hold_service >>
    /\ UNCHANGED << config, hass_data, oauth_impls, component_pc, setup_return,
                    entry_data, entry_updated, entry_state, setup_pc,
                    setup_result, setups, unload_pc, unload_task,
                    unload_result >>
    /\ UNCHANGED << device_vars, entity_vars >>

\* ---------------------------------------------------- async_unload_entry

\* Lines 101-106: the gather starts one forwarded unload per platform.
async_unload_entry_begin ==
    /\ entry_state = "loaded"
    /\ setup_pc = "idle"
    /\ unload_pc = "idle"
    /\ unload_pc' = "gathering"
    /\ unload_task' = [c \in Components |-> "running"]
    /\ unload_result' = "pending"
    /\ entry_state' = "unload_in_progress"
    /\ UNCHANGED << config, hass_data, oauth_impls, component_pc, setup_return,
                    entry_data, entry_updated, setup_pc, setup_result, setups,
                    pending, platform_loaded, platform_seen, hold_service >>
    /\ UNCHANGED << device_vars, entity_vars >>

\* A forwarded unload ends: it reports success (True), reports failure
\* (False), or raises.  It may end after the gather has already raised.
UnloadOutcomes == { "True", "False", "raised" }

async_forward_entry_unload(c) ==
    /\ unload_task[c] = "running"
    /\ \E o \in UnloadOutcomes :
        /\ unload_task' = [unload_task EXCEPT ![c] = o]
        /\ platform_loaded' =
              IF o = "True" THEN [platform_loaded EXCEPT ![c] = FALSE]
                            ELSE platform_loaded
    /\ UNCHANGED << config, hass_data, oauth_impls, component_pc, setup_return,
                    entry_data, entry_updated, entry_state, setup_pc,
                    setup_result, setups, pending, platform_seen, hold_service,
                    unload_pc, unload_result >>
    /\ UNCHANGED << device_vars, entity_vars >>

\* asyncio.gather without return_exceptions: the first exception is raised
\* to the awaiter at once, the other awaitables keep running.
GatherRaises(tasks) == \E c \in Components : tasks[c] = "raised"

\* A mutant of GatherReturns: the join ends with the first finished unload.
GatherReturnsFirst(tasks) ==
    /\ ~GatherRaises(tasks)
    /\ \E c \in Components : tasks[c] # "running"

\* Lines 101-106: the gather returns when every awaitable has returned; the
\* list of results is discarded.
GatherReturns(tasks) ==
    \A c \in Components : tasks[c] \in {"True", "False"}

\* Line 111: del hass.data[DOMAIN]
DeleteDomain(data) == Without(data, LyricDomain)

\* Lines 101-106, the gather raised: nothing after line 106 runs.
async_unload_entry_raise ==
    /\ unload_pc = "gathering"
    /\ GatherRaises(unload_task)
    /\ unload_pc' = "idle"
    /\ unload_result' = "raised"
    /\ entry_state' = "failed_unload"
    /\ UNCHANGED << config, hass_data, oauth_impls, component_pc, setup_return,
                    entry_data, entry_updated, setup_pc, setup_result, setups,
                    pending, platform_loaded, platform_seen, hold_service,
                    unload_task >>
    /\ UNCHANGED << device_vars, entity_vars >>

\* Lines 108-113: the service is removed, the domain's data deleted, True
\* returned.
async_unload_entry_finish ==
    /\ unload_pc = "gathering"
    /\ GatherReturns(unload_task)
    /\ LyricDomain \in DOMAIN hass_data
    /\ hold_service' = FALSE
    /\ hass_data' = DeleteDomain(hass_data)
    /\ unload_pc' = "idle"
    /\ unload_result' = "True"
    /\ entry_state' = "not_loaded"
    /\ UNCHANGED << config, oauth_impls, component_pc, setup_return, entry_data,
                    entry_updated, setup_pc, setup_result, setups, pending,
                    platform_loaded, platform_seen, unload_task >>
    /\ UNCHANGED << device_vars, entity_vars >>

\* ------------------------------------------------------------ life cycle

DomainConfig == [ client_id |-> "id", client_secret |-> "secret" ]

\* Global configurations: with and without the integration's key, with and
\* without a key of another integration (extra keys are allowed).
Configs ==
    { EmptyMap,
      [k \in {"other"} |-> "x"],
      [k \in {LyricDomain} |-> DomainConfig],
      [k \in {LyricDomain, "other"} |-> IF k = LyricDomain THEN DomainConfig ELSE "x"] }

\* Config entries: with or without a token, with or without a marker (the
\* domain's, or another implementation's), with or without another key.
EntryDatas ==
    { [k \in ks |-> CASE k = CONF_TOKEN -> "tok"
                      [] k = AUTH_IMPLEMENTATION -> m
                      [] k = "extra" -> "x"] :
        ks \in SUBSET {CONF_TOKEN, AUTH_IMPLEMENTATION, "extra"},
        m \in {LyricDomain, "cloud"} }

InitLifecycle ==
    /\ config \in Configs
    /\ hass_data = EmptyMap
    /\ oauth_impls = EmptyMap
    /\ component_pc = "init"
    /\ setup_return = "none"
    /\ entry_data \in EntryDatas
    /\ entry_updated = FALSE
    /\ entry_state = "not_loaded"
    /\ setup_pc = "idle"
    /\ setup_result = "none"
    /\ setups = 0
    /\ pending = [c \in Components |-> 0]
    /\ platform_loaded = [c \in Components |-> FALSE]
    /\ platform_seen = [c \in Components |-> "none"]
    /\ hold_service = FALSE
    /\ unload_pc = "idle"
    /\ unload_task = [c \in Components |-> "idle"]
    /\ unload_result = "none"

\* ----------------------------------------------------------- LyricClient

\* for location in ...: for device in location.thermostats: yield (location, device)
LocationPairs(location) ==
    [j \in 1..Len(location.thermostats) |-> << location, location.thermostats[j] >>]

RECURSIVE DevicesFrom(_, _)
DevicesFrom(locations, i) ==
    IF i > Len(locations)
    THEN << >>
    ELSE LocationPairs(locations[i]) \o DevicesFrom(locations, i + 1)

Range(s) == { s[i] : i \in DOMAIN s }

\* A mutant of devices: the locations are those the constructor saw.
devicesCached(self) ==
    DevicesFrom(SelectSeq(lyric_locations,
                          LAMBDA l : l.name \in Range(self._location)), 1)

\* A mutant of devices: every device is paired with the first location.
devicesFirstLocation(self) ==
    LET all == DevicesFrom(lyric_locations, 1)
    IN  [k \in DOMAIN all |-> << lyric_locations[1], all[k][2] >>]

\* Lines 124-128: LyricClient.devices, consumed to its end; self.lyric.locations
\* is read when the generator runs.
devices(self) == DevicesFrom(lyric_locations, 1)

\* The caller (a sub-platform) lists the devices.
call_devices ==
    /\ yielded' = devices(client)
    /\ prev_yielded' = yielded
    /\ calls' = IF calls < 2 THEN calls + 1 ELSE 2
    /\ UNCHANGED << lyric_locations, client >>
    /\ UNCHANGED << lifecycle_vars, entity_vars >>

\* The vendor SDK changes its collections: a location appears.
LocationNames == 1..MaxLocations

NewCollection(locations) ==
    /\ lyric_locations' = locations
    /\ calls' = 0
    /\ yielded' = << >>
    /\ prev_yielded' = << >>
    /\ UNCHANGED client
    /\ UNCHANGED << lifecycle_vars, entity_vars >>

vendor_add_location ==
    /\ Len(lyric_locations) < MaxLocations
    /\ \E n \in LocationNames :
        /\ \A i \in DOMAIN lyric_locations : lyric_locations[i].name # n
        /\ NewCollection(Append(lyric_locations,
                                [name |-> n, thermostats |-> << >>]))

\* The vendor SDK changes its collections: a thermostat appears at a location.
vendor_add_thermostat ==
    \E i \in DOMAIN lyric_locations :
        LET l == lyric_locations[i]
        IN  /\ Len(l.thermostats) < MaxThermostats
            /\ NewCollection([lyric_locations EXCEPT ![i].thermostats =
                    Append(l.thermostats, << l.name, Len(l.thermostats) + 1 >>)])

\* The vendor SDK changes its collections: a location disappears.
vendor_remove_location ==
    \E i \in DOMAIN lyric_locations :
        NewCollection(SubSeq(lyric_locations, 1, i - 1)
                      \o SubSeq(lyric_locations, i + 1, Len(lyric_locations)))

\* The collections the wrapper is constructed over.
InitLocations ==
    { << >> } \cup { << [name |-> n, thermostats |-> << >>] >> : n \in LocationNames }

InitDevices ==
    /\ lyric_locations \in InitLocations
    /\ client = LyricClient("lyric", lyric_locations)
    /\ calls = 0
    /\ yielded = << >>
    /\ prev_yielded = << >>

\* ----------------------------------------------------------- LyricEntity

Entities == 1..MaxEntities

\* Lines 134-144: LyricEntity.__init__, of the base class or of a class that
\* overrides _lyric_update.
LyricEntity_init(e) ==
    /\ entity_kind[e] = "absent"
    /\ \E k \in {"LyricEntity", "Concrete"} :
        entity_kind' = [entity_kind EXCEPT ![e] = k]
    /\ _available' = [_available EXCEPT ![e] = FALSE]
    /\ UNCHANGED << update_pc, update_result >>
    /\ UNCHANGED << lifecycle_vars, device_vars >>

\* Line 173: async_update awaits the hook.
async_update_begin(e) ==
    /\ entity_kind[e] # "absent"
    /\ update_pc[e] = "idle"
    /\ update_pc' = [update_pc EXCEPT ![e] = "awaiting"]
    /\ UNCHANGED << entity_kind, _available, update_result >>
    /\ UNCHANGED << lifecycle_vars, device_vars >>

\* Lines 176-178: the default hook raises; an overriding hook (not in this
\* file) completes or raises.
_lyric_update(kind) ==
    IF kind = "LyricEntity" THEN {"NotImplementedError"} ELSE {"ok", "raised"}

\* A mutant of AvailableAfterUpdate: the flag is set whatever the hook did.
AvailableAfterUpdateAlways(available, hook) == TRUE

\* Lines 173-174: line 174 runs only when the await did not raise.
AvailableAfterUpdate(available, hook) ==
    IF hook = "ok" THEN TRUE ELSE available

async_update_finish(e) ==
    /\ update_pc[e] = "awaiting"
    /\ \E hook \in _lyric_update(entity_kind[e]) :
        /\ _available' = [_available EXCEPT ![e] = AvailableAfterUpdate(_available[e], hook)]
        /\ update_result' = [update_result EXCEPT ![e] = hook]
    /\ update_pc' = [update_pc EXCEPT ![e] = "idle"]
    /\ UNCHANGED entity_kind
    /\ UNCHANGED << lifecycle_vars, device_vars >>

InitEntity ==
    /\ entity_kind = [e \in Entities |-> "absent"]
    /\ _available = [e \in Entities |-> FALSE]
    /\ update_pc = [e \in Entities |-> "idle"]
    /\ update_result = [e \in Entities |-> "none"]

\* -------------------------------------------------------- specifications

\* The parts a specification does not exercise rest in one fixed state.
LifecycleAtRest ==
    /\ config = EmptyMap
    /\ entry_data = [k \in {CONF_TOKEN} |-> "tok"]
    /\ InitLifecycle

DevicesAtRest ==
    /\ lyric_locations = << >>
    /\ InitDevices

Init == InitLifecycle /\ DevicesAtRest /\ InitEntity

Next ==
    \/ async_setup
    \/ async_setup_entry_begin
    \/ async_setup_entry_finish
    \/ \E c \in Components : async_forward_entry_setup(c)
    \/ async_unload_entry_begin
    \/ \E c \in Components : async_forward_entry_unload(c)
    \/ async_unload_entry_raise
    \/ async_unload_entry_finish

Spec == Init /\ [][Next]_vars

InitSpecDevices == LifecycleAtRest /\ InitDevices /\ InitEntity

NextDevices ==
    \/ call_devices
    \/ vendor_add_location
    \/ vendor_add_thermostat
    \/ vendor_remove_location

SpecDevices == InitSpecDevices /\ [][NextDevices]_vars

InitSpecEntity == LifecycleAtRest /\ DevicesAtRest /\ InitEntity

NextEntity ==
    \/ \E e \in Entities : LyricEntity_init(e)
    \/ \E e \in Entities : async_update_begin(e)
    \/ \E e \in Entities : async_update_finish(e)

SpecEntity == InitSpecEntity /\ [][NextEntity]_vars

\* ------------------------------------------------------- claims: life cycle

\* The steps of the handlers, as seen from outside.
SetupEntryBegins == setup_pc = "idle" /\ setup_pc' = "resolving"
SetupEntryEnds == setup_pc = "resolving" /\ setup_pc' = "idle"
UnloadEnds == unload_pc = "gathering" /\ unload_pc' = "idle"
DomainPresent(data) == LyricDomain \in DOMAIN data

\* C1: when one of the two forwarded unloads fails (reports failure or
\* raises), async_unload_entry does not report success and hass.data is left
\* exactly as it was.
C1_FailedUnloadKeepsState ==
    [][ (UnloadEnds /\ \E c \in Components : unload_task[c] \in {"False", "raised"})
            => (unload_result' # "True" /\ hass_data' = hass_data) ]_vars

\* C2: when both forwarded unloads succeed, async_unload_entry removes the
\* hold-time service, deletes hass.data[DOMAIN] and returns True; and
\* hass.data[DOMAIN] is never deleted while a forwarded unload is still running.
C2_UnloadJoinsThenClears ==
    /\ [][ (UnloadEnds /\ \A c \in Components : unload_task[c] = "True")
            => (/\ unload_result' = "True"
                /\ ~hold_service'
                /\ ~DomainPresent(hass_data')) ]_vars
    /\ [][ (DomainPresent(hass_data) /\ ~DomainPresent(hass_data'))
            => (\A c \in Components : unload_task[c] \notin {"idle", "running"}) ]_vars

C2_Witness ==
    /\ unload_result = "True"
    /\ \A c \in Components : unload_task[c] = "True"
    /\ entry_state = "not_loaded"
    /\ ~DomainPresent(hass_data)
    /\ ~hold_service
    /\ platform_seen["climate"] = "client"

\* C3: shared state holds at most one wrapper, every forwarded sub-platform
\* setup that runs finds the wrapper under hass.data[DOMAIN][DATA_LYRIC_CLIENT],
\* and the wrapper is gone once unload has completed.
C3_WrapperLifetime ==
    /\ DomainPresent(hass_data) => Cardinality(DOMAIN hass_data[LyricDomain]) <= 1
    /\ \A c \in Components : platform_seen[c] # "KeyError"
    /\ (unload_result = "True" /\ entry_state = "not_loaded")
            => ~ClientPresent(hass_data)

\* C4: a successful async_setup_entry schedules one forwarded setup for each
\* of the two declared platforms and returns True with none of them run;
\* afterwards every scheduled setup can be the next to run.
C4_ForwardsScheduledNotAwaited ==
    /\ [][ (SetupEntryEnds /\ setup_result' = "True")
            => (/\ Components = {"climate", "sensor"}
                /\ Len(LYRIC_COMPONENTS) = 2
                /\ \A c \in Components : pending'[c] = pending[c] + 1
                /\ platform_loaded' = platform_loaded
                /\ platform_seen' = platform_seen) ]_vars
    /\ [][ (\E c \in Components : pending'[c] > pending[c])
            => (SetupEntryEnds /\ setup_result' = "True") ]_vars

\* sensor, scheduled second, ran first, after the return, climate still waits
C4_Witness ==
    /\ setup_result = "True"
    /\ setups = 1
    /\ pending["climate"] = 1
    /\ pending["sensor"] = 0
    /\ platform_seen["sensor"] = "client"
    /\ platform_seen["climate"] = "none"

\* C5: async_setup_entry adds the marker "auth_implementation" = DOMAIN to an
\* entry that has none and changes no other key; an entry that has a marker is
\* not updated.
C5_MarkerBackfill ==
    /\ [][ SetupEntryBegins =>
            IF AUTH_IMPLEMENTATION \notin DOMAIN entry_data
            THEN /\ entry_updated'
                 /\ DOMAIN entry_data' = DOMAIN entry_data \cup {AUTH_IMPLEMENTATION}
                 /\ entry_data'[AUTH_IMPLEMENTATION] = LyricDomain
                 /\ \A k \in DOMAIN entry_data : entry_data'[k] = entry_data[k]
            ELSE /\ ~entry_updated'
                 /\ entry_data' = entry_data ]_vars
    /\ [][ ~SetupEntryBegins => entry_data' = entry_data ]_vars

C5_Witness ==
    /\ setup_result = "True"
    /\ entry_updated
    /\ entry_data[AUTH_IMPLEMENTATION] = LyricDomain
    /\ "extra" \in DOMAIN entry_data

\* C6: async_setup returns True and leaves hass.data[DOMAIN] empty, and an
\* OAuth2 implementation is registered exactly when the domain key is in the
\* configuration.
C6_SetupAlwaysSucceeds ==
    [][ (component_pc = "init" /\ component_pc' = "done")
            => (/\ setup_return' = "True"
                /\ DomainPresent(hass_data')
                /\ hass_data'[LyricDomain] = EmptyMap
                /\ (LyricDomain \in DOMAIN oauth_impls') = (LyricDomain \in DOMAIN config)
                /\ DOMAIN oauth_impls' \subseteq {LyricDomain}) ]_vars

C6_Witness ==
    /\ component_pc = "done"
    /\ setup_return = "True"
    /\ DOMAIN config = {"other"}
    /\ oauth_impls = EmptyMap

\* C10: an async_setup_entry that raises ends the call at once (no second
\* attempt), stores no wrapper and schedules no forwarded setup: hass.data and
\* the scheduled tasks are as they were when the call began.
C10_FailedSetupHasNoEffect ==
    /\ [][ (SetupEntryEnds /\ setup_result' # "True")
            => (/\ setup_result' \in SetupOutcomes \ {"ok"}
                /\ hass_data' = hass_data
                /\ pending' = pending
                /\ setups' = setups
                /\ entry_state' = "setup_error") ]_vars
    /\ [][ SetupEntryBegins
            => (hass_data' = hass_data /\ pending' = pending) ]_vars

\* the second setup, after an unload, fails in the vendor client's constructor
C10_Witness ==
    /\ setup_result = "raised_client"
    /\ setups = 2
    /\ ~DomainPresent(hass_data)
    /\ entry_state = "setup_error"

\* ------------------------------------------------------ claims: LyricClient

\* number of times pair p occurs in sequence s
Count(s, p) == Cardinality({ k \in DOMAIN s : s[k] = p })

\* the (location index, thermostat index) places of the current collection
Places ==
    { << i, j >> : i \in DOMAIN lyric_locations, j \in 1..MaxThermostats + 1 }

Thermostats ==
    { q \in Places : q[2] <= Len(lyric_locations[q[1]].thermostats) }

\* C7: a devices() call yields exactly one pair for every thermostat of every
\* location, the thermostat paired with the location that owns it, and no
\* other pair: none for no location, five for locations of 2 and 3 thermostats.
C7_DevicesPairsEveryThermostat ==
    calls >= 1 =>
        /\ Len(yielded) = Cardinality(Thermostats)
        /\ \A q \in Thermostats :
              Count(yielded, << lyric_locations[q[1]],
                                lyric_locations[q[1]].thermostats[q[2]] >>) = 1
        /\ \A k \in DOMAIN yielded :
              /\ yielded[k][1] \in Range(lyric_locations)
              /\ yielded[k][2] \in Range(yielded[k][1].thermostats)
        /\ lyric_locations = << >> => yielded = << >>
        /\ ( /\ Len(lyric_locations) = 2
             /\ Len(lyric_locations[1].thermostats) = 2
             /\ Len(lyric_locations[2].thermostats) = 3 ) => Len(yielded) = 5

C7_Witness ==
    /\ calls >= 1
    /\ Len(lyric_locations) = 2
    /\ Len(lyric_locations[1].thermostats) = 2
    /\ Len(lyric_locations[2].thermostats) = 3
    /\ Len(yielded) = 5

\* C8: two devices() calls with the collections unchanged between them yield
\* the same multiset of pairs, and a call yields the collections as they are
\* when it is made, not as the constructor saw them: every location present
\* now is yielded with its thermostats, no location that is gone is yielded.
C8_DevicesRereadsCollections ==
    /\ calls = 2 =>
          \A p \in Range(yielded) \cup Range(prev_yielded) :
              Count(yielded, p) = Count(prev_yielded, p)
    /\ calls >= 1 =>
          /\ \A i \in DOMAIN lyric_locations :
                \A d \in Range(lyric_locations[i].thermostats) :
                    << lyric_locations[i], d >> \in Range(yielded)
          /\ \A p \in Range(yielded) : p[1] \in Range(lyric_locations)

\* two calls after a location the constructor never saw got a thermostat
C8_Witness ==
    /\ calls = 2
    /\ yielded # << >>
    /\ \E i \in DOMAIN lyric_locations :
          /\ lyric_locations[i].name \notin Range(client._location)
          /\ lyric_locations[i].thermostats # << >>
    /\ \E n \in Range(client._location) :
          \A i \in DOMAIN lyric_locations : lyric_locations[i].name # n

\* ------------------------------------------------------ claims: LyricEntity

UpdateEnds(e) == update_pc[e] = "awaiting" /\ update_pc'[e] = "idle"

\* C9: an entity is constructed unavailable; an entity without an overriding
\* hook ends every async_update with NotImplementedError and stays unavailable;
\* an async_update whose hook completed leaves the entity available; an
\* async_update whose hook raised leaves the flag as it was.
C9_AvailableOnlyAfterHookCompletes ==
    /\ [](\A e \in Entities :
            entity_kind[e] = "LyricEntity" =>
                /\ ~_available[e]
                /\ update_result[e] \in {"none", "NotImplementedError"})
    /\ [][ \A e \in Entities :
            /\ (entity_kind[e] = "absent" /\ entity_kind'[e] # "absent")
                  => ~_available'[e]
            /\ (UpdateEnds(e) /\ entity_kind[e] = "LyricEntity")
                  => update_result'[e] = "NotImplementedError"
            /\ (UpdateEnds(e) /\ update_result'[e] = "ok") => _available'[e]
            /\ (UpdateEnds(e) /\ update_result'[e] # "ok")
                  => _available'[e] = _available[e]
            /\ ~UpdateEnds(e) => _available'[e] = _available[e] ]_vars

\* one entity without the hook failed its update, another first completed an
\* update and then had one raise
C9_Witness ==
    \E e, f \in Entities :
        /\ entity_kind[e] = "LyricEntity"
        /\ update_result[e] = "NotImplementedError"
        /\ ~_available[e]
        /\ entity_kind[f] = "Concrete"
        /\ update_result[f] = "raised"
        /\ _available[f]

====
